---- MODULE Spec2Model ----
(***************************************************************************)
(* A model of scripts/import-docs.py: the batch import of documents into   *)
(* MessageSearch.  Text is a sequence of one-character strings, time is    *)
(* counted in milliseconds, a JSON object is a sequence of <<key, value>>  *)
(* members before parsing and a function from its keys afterwards.         *)
(***************************************************************************)
EXTENDS Integers, Sequences, FiniteSets, TLC

\* ------------------------------------------------------------------ bounds
\* Largest value of --retries (the smallest is -1: argparse takes any int).
MaxRetries == 3
\* Longest document list of a JSON input.
MaxDocs == 2
\* Largest value of --batch-size (the smallest is 0).
MaxBatchSize == 2
\* Longest document list and largest batch size chunked is applied to alone.
MaxChunkLen == 4
MaxChunkSize == 3
\* Longest text split_paragraphs is applied to alone.
MaxTextLen == 4

\* ------------------------------------------------------- Python built-ins
NL == "\n"
SP == " "

IsSpace(c) == c \in {SP, NL}

Max(S) == CHOOSE x \in S : \A y \in S : y <= x

Min(S) == CHOOSE x \in S : \A y \in S : x <= y

\* Leaves the whitespace where it is.
strip_nothing(s) == s

\* str.strip(): drop the leading and the trailing whitespace.
strip(s) ==
    LET keep == {i \in 1..Len(s) : ~IsSpace(s[i])}
    IN  IF keep = {} THEN <<>> ELSE SubSeq(s, Min(keep), Max(keep))

\* s.startswith-style test: does pat occur in s at position i?
OccursAt(s, pat, i) ==
    /\ i + Len(pat) - 1 <= Len(s)
    /\ \A k \in 1..Len(pat) : s[i + k - 1] = pat[k]

\* str.split(sep) for a non-empty sep: cut at the leftmost non-overlapping
\* occurrences of sep, scanning from position pos with the segment that
\* started at position start.
RECURSIVE str_split_from(_, _, _, _)
str_split_from(s, sep, start, pos) ==
    IF pos > Len(s) THEN <<SubSeq(s, start, Len(s))>>
    ELSE IF OccursAt(s, sep, pos)
         THEN <<SubSeq(s, start, pos - 1)>>
              \o str_split_from(s, sep, pos + Len(sep), pos + Len(sep))
         ELSE str_split_from(s, sep, start, pos + 1)

str_split(s, sep) == str_split_from(s, sep, 1, 1)

\* The end of the match of the regular expression \n\s*\n+ that starts at
\* position i, or 0 when there is none.  \s* is greedy and \n+ needs one
\* newline at least, so the match runs to the last newline of the
\* whitespace run that follows position i.
BlankMatchEnd(s, i) ==
    IF s[i] # NL THEN 0
    ELSE LET run == {k \in i..Len(s) : \A m \in (i + 1)..k : IsSpace(s[m])}
             nls == {k \in run : k > i /\ s[k] = NL}
         IN  IF nls = {} THEN 0 ELSE Max(nls)

\* re.split(r"\n\s*\n+", s)
RECURSIVE re_split_from(_, _, _)
re_split_from(s, start, pos) ==
    IF pos > Len(s) THEN <<SubSeq(s, start, Len(s))>>
    ELSE IF BlankMatchEnd(s, pos) > 0
         THEN <<SubSeq(s, start, pos - 1)>>
              \o re_split_from(s, BlankMatchEnd(s, pos) + 1, BlankMatchEnd(s, pos) + 1)
         ELSE re_split_from(s, start, pos + 1)

re_split_blank(s) == re_split_from(s, 1, 1)

\* [part.strip() for part in parts if part.strip()]
RECURSIVE StripNonEmpty(_)
StripNonEmpty(parts) ==
    IF parts = <<>> THEN <<>>
    ELSE LET p == strip(Head(parts))
         IN  (IF p = <<>> THEN <<>> ELSE <<p>>) \o StripNonEmpty(Tail(parts))

\* A call either returns a value or raises an exception.
Return(v) == [raised |-> FALSE, value |-> v, exc |-> "", msg |-> "", path |-> <<>>]

\* An exception whose message ends with the name of a file of the directory.
RaiseAt(exc, msg, path) ==
    [raised |-> TRUE, value |-> <<>>, exc |-> exc, msg |-> msg, path |-> path]

Raise(exc, msg) == RaiseAt(exc, msg, <<>>)

\* ------------------------------------------------------- split_paragraphs
\* A split rule is the pair <<head, rest>> of the --split string: head is
\* "blankline", "delimiter:" or anything else, rest is the text after
\* "delimiter:".
split_paragraphs(text, mode) ==
    IF mode = <<"blankline", <<>>>>
    THEN Return(StripNonEmpty(re_split_blank(text)))
    ELSE IF mode[1] = "delimiter:"
         THEN IF mode[2] = <<>>
              THEN Raise("ValueError", "delimiter must not be empty")
              ELSE Return(StripNonEmpty(str_split(text, mode[2])))
         ELSE Raise("ValueError", "unsupported split rule")

\* ---------------------------------------------------- build_doc_from_text
build_doc_from_text(entry, language_code, split_mode) ==
    LET paragraphs == split_paragraphs(entry.content, split_mode)
    IN  IF paragraphs.raised THEN paragraphs
        ELSE IF paragraphs.value = <<>>
             THEN RaiseAt("ValueError", "empty document", entry.name)
             ELSE Return([title |-> entry.name[1],
                          languageCode |-> language_code,
                          paragraphs |->
                              [i \in 1..Len(paragraphs.value) |->
                                  [position |-> i - 1,
                                   body |-> paragraphs.value[i],
                                   languageCode |-> language_code]],
                          publish |-> TRUE])

\* ------------------------------------------------ load_documents_from_dir
\* The order of path names: by stem, then by suffix, as the strings compare.
StemRank(stem) == CASE stem = "a" -> 1 [] stem = "b" -> 2 [] stem = "c" -> 3

SuffixRank(suffix) ==
    CASE suffix = ".MD" -> 1 [] suffix = ".md" -> 2
      [] suffix = ".py" -> 3 [] suffix = ".txt" -> 4

NameKey(name) == StemRank(name[1]) * 10 + SuffixRank(name[2])

\* Sorts from the greatest name down.
RECURSIVE sorted_descending(_)
sorted_descending(entries) ==
    IF entries = {} THEN <<>>
    ELSE LET first == CHOOSE e \in entries :
                          \A o \in entries : NameKey(e.name) >= NameKey(o.name)
         IN  <<first>> \o sorted_descending(entries \ {first})

\* sorted(path.iterdir())
RECURSIVE sorted(_)
sorted(entries) ==
    IF entries = {} THEN <<>>
    ELSE LET first == CHOOSE e \in entries :
                          \A o \in entries : NameKey(e.name) <= NameKey(o.name)
         IN  <<first>> \o sorted(entries \ {first})

\* entry.suffix.lower()
lower(suffix) == IF suffix = ".MD" THEN ".md" ELSE suffix

\* The loop of lines 65-67 over the sorted entries not yet visited: the
\* documents built so far, or the first exception a file raises.
RECURSIVE load_loop(_, _, _, _)
load_loop(todo, docs, language_code, split_mode) ==
    IF todo = <<>> THEN Return(docs)
    ELSE LET entry == Head(todo)
         IN  IF entry.is_file /\ lower(entry.name[2]) \in {".txt", ".md"}
             THEN LET doc == build_doc_from_text(entry, language_code, split_mode)
                  IN  IF doc.raised THEN doc
                      ELSE load_loop(Tail(todo), Append(docs, doc.value),
                                     language_code, split_mode)
             ELSE load_loop(Tail(todo), docs, language_code, split_mode)

load_documents_from_dir(path, language_code, split_mode) ==
    IF path.kind # "dir"
    THEN Raise("ValueError", "input directory not found")
    ELSE LET docs == load_loop(sorted(path.entries), <<>>, language_code, split_mode)
         IN  IF docs.raised THEN docs
             ELSE IF docs.value = <<>>
                  THEN Raise("ValueError", "no .txt or .md files found")
                  ELSE docs

\* ----------------------------------------------- load_documents_from_json
\* The content of a file is  [json |-> "list", items |-> ...],
\* [json |-> "object", documents |-> a list or "absent"/"notalist"], or
\* [json |-> "invalid"] for text json.loads rejects (JSONDecodeError is a
\* ValueError).
load_documents_from_json(path) ==
    IF path.kind # "file"
    THEN Raise("ValueError", "input file not found")
    ELSE LET raw == path.raw
         IN  IF raw.json = "invalid"
             THEN Raise("ValueError", "JSONDecodeError")
             ELSE IF raw.json = "list" THEN Return(raw.items)
             ELSE IF raw.json = "object" /\ raw.documents = "list"
                  THEN Return(raw.items)
                  ELSE Raise("ValueError",
                             "expected a JSON array of documents or an object with a documents array")

\* ---------------------------------------------------------------- chunked
\* Slices one element short: items[i : i + size - 1].
RECURSIVE chunks_one_short(_, _, _)
chunks_one_short(items, size, i) ==
    IF i >= Len(items) THEN <<>>
    ELSE <<SubSeq(items, i + 1, Min({i + size - 1, Len(items)}))>>
         \o chunks_one_short(items, size, i + size)

\* [items[i : i + size] for i in range(0, len(items), size)]
RECURSIVE chunks_from(_, _, _)
chunks_from(items, size, i) ==
    IF i >= Len(items) THEN <<>>
    ELSE <<SubSeq(items, i + 1, Min({i + size, Len(items)}))>>
         \o chunks_from(items, size, i + size)

\* A batch size that is not positive taken as 1.
chunked_size_clamped(items, size) ==
    Return(chunks_from(items, IF size <= 0 THEN 1 ELSE size, 0))

chunked(items, size) ==
    IF size <= 0
    THEN Raise("ValueError", "batch-size must be positive")
    ELSE Return(chunks_from(items, size, 0))

\* ------------------------------------------------------------- json, dict
\* A parser that keeps the first member of a repeated key.
json_loads_first_wins(body) ==
    LET keys == {body[i][1] : i \in 1..Len(body)}
    IN  [k \in keys |-> body[Min({i \in 1..Len(body) : body[i][1] = k})][2]]

\* json.loads of an object: the value of a key is the one of its last member.
json_loads(body) ==
    LET keys == {body[i][1] : i \in 1..Len(body)}
    IN  [k \in keys |-> body[Max({i \in 1..Len(body) : body[i][1] = k})][2]]

\* dict.get(key, default)
get(d, key, default) == IF key \in DOMAIN d THEN d[key] ELSE default

\* int(x) of a JSON integer.
int(x) == x

\* -------------------------------------------------------------- post_json
\* Every error status retried.
retryable_any_status(code) == TRUE

\* The statuses the branch of line 103 retries.
retryable(code) == code \in {429, 500, 502, 503, 504}

\* The retry guard that also retries after the last attempt.
attempts_left_through_last(n, retries) == n <= retries

\* The retry guard, one attempt short.
attempts_left_one_short(n, retries) == n < retries - 1

\* Lines 104 and 110: is a retry left after the attempt numbered n (from 0)?
attempts_left(n, retries) == n < retries

\* A loop that is entered once whatever the range.
in_range_at_least_once(n, retries) == n < retries + 1 \/ n = 0

\* The loop over range(retries).
in_range_of_retries(n, retries) == n < retries

\* Line 97: does range(retries + 1) hold n?
in_range(n, retries) == n < retries + 1

\* 0.5 s, in milliseconds.
HalfSecondMs == 500

\* A delay that doubles once too often.
backoff_from_one_second(n) == HalfSecondMs * (2 ^ (n + 1))

\* The argument of time.sleep at lines 105 and 111, in milliseconds.
backoff(n) == HalfSecondMs * (2 ^ n)

\* urlopen returns the response of a 2xx status and raises HTTPError for
\* every other status; a request that gets no response raises URLError.
is_success(status) == 200 <= status /\ status < 300

\* ------------------------------------------------------------------ inputs
SplitRules ==
    { <<"blankline", <<>>>>, <<"delimiter:", <<"-">>>>,
      <<"delimiter:", <<>>>>, <<"lines", <<>>>> }

NoRaw == [json |-> "invalid", documents |-> "absent", items |-> <<>>]

File(stem, suffix, content) ==
    [name |-> <<stem, suffix>>, is_file |-> TRUE, content |-> content]

SubDir(stem, suffix) ==
    [name |-> <<stem, suffix>>, is_file |-> FALSE, content |-> <<>>]

Dir(entries) == [kind |-> "dir", entries |-> entries, raw |-> NoRaw]

JsonFile(raw) == [kind |-> "file", entries |-> {}, raw |-> raw]

\* The inputs of the runs: no such path, directories, JSON files.
FsCases ==
    { [kind |-> "missing", entries |-> {}, raw |-> NoRaw],
      Dir({}),
      Dir({File("a", ".txt", <<"a", NL, NL, "b">>), File("b", ".md", <<"a">>)}),
      Dir({File("b", ".MD", <<"-">>), File("a", ".txt", <<"a", "-", "b", NL>>),
           File("c", ".py", <<"a">>)}),
      Dir({File("c", ".py", <<"a">>), SubDir("a", ".txt")}),
      Dir({File("a", ".txt", <<"a">>), File("b", ".md", <<SP, NL>>),
           File("c", ".txt", <<>>)}),
      JsonFile(NoRaw),
      JsonFile([json |-> "object", documents |-> "absent", items |-> <<>>]),
      JsonFile([json |-> "object", documents |-> "notalist", items |-> <<>>]),
      JsonFile([json |-> "object", documents |-> "list", items |-> <<1>>]),
      JsonFile([json |-> "object", documents |-> "list", items |-> <<>>]) }
    \cup { JsonFile([json |-> "list", documents |-> "absent",
                     items |-> [i \in 1..n |-> i]]) : n \in 0..MaxDocs }

Args ==
    [retries : -1..MaxRetries, batch_size : 0..MaxBatchSize, dry_run : BOOLEAN,
     format : {"none", "dir", "json"}, split : SplitRules,
     language_code : {"en-US"}]

\* The bodies of the 2xx responses: JSON objects, as member sequences.
Bodies ==
    { <<>>,
      << <<"created", 1>>, <<"failed", 0>> >>,
      << <<"created", 0>>, <<"failed", 1>>,
         <<"results", <<[index |-> 0, error |-> "rejected"]>>>> >>,
      << <<"failed", 1>>, <<"created", 1>>, <<"failed", 0>>,
         <<"results", <<[index |-> 0, error |-> ""], [index |-> 1, error |-> "rejected"]>>>> >>,
      << <<"failed", -1>> >> }

\* The bodies of the other responses.
ErrBodies == { << <<"error", "busy">> >>, << <<"error", "denied">> >> }

\* What a URLError says of its cause.
Reasons == { << <<"reason", "refused">> >>, << <<"reason", "unreachable">> >> }

Statuses == {200, 404, 429, 503}

\* What one urlopen call can meet: a response, or no response at all.
Outcomes ==
    [kind : {"response"}, status : {s \in Statuses : is_success(s)}, body : Bodies]
    \cup [kind : {"response"}, status : {s \in Statuses : ~is_success(s)}, body : ErrBodies]
    \cup [kind : {"failure"}, status : {0}, body : Reasons]

\* ------------------------------------------------------------------- state
VARIABLES
    args,           \* the parsed command line
    fs,             \* what --input names
    pc,             \* where main is
    fmt,            \* main's fmt
    documents,      \* main's documents
    batches,        \* main's batches
    idx,            \* main's idx: the batch being sent, from 1
    attempt,        \* post_json's attempt
    total_created,
    total_failed,
    result,         \* what post_json returned last
    returned,       \* the counts of each result post_json returned, in order
    stdout,         \* the lines printed
    exit_status,    \* <<>> while running, <<status>> once the process ended
    error,          \* the exception that ended the run, if one did
    http_log,       \* kind and status of each urlopen call of this post_json call
    last_response,  \* what the last urlopen call met, body included
    sleeps,         \* the time.sleep calls of this post_json call, in ms
    batch_state,    \* per batch: "pending", "sending", "success", "failed"
    attempted       \* the batches urlopen was called for

vars == <<args, fs, pc, fmt, documents, batches, idx, attempt, total_created,
          total_failed, result, returned, stdout, exit_status, error,
          http_log, last_response, sleeps, batch_state, attempted>>

NoResponse == [kind |-> "none", status |-> 0, body |-> <<>>]

NoError == [exc |-> "", msg |-> "", status |-> 0, body |-> <<>>, path |-> <<>>]

Init ==
    /\ args \in Args
    /\ fs \in FsCases
    /\ pc = "resolve"
    /\ fmt = "none"
    /\ documents = <<>>
    /\ batches = <<>>
    /\ idx = 0
    /\ attempt = 0
    /\ total_created = 0
    /\ total_failed = 0
    /\ result = <<>>
    /\ returned = <<>>
    /\ stdout = <<>>
    /\ exit_status = <<>>
    /\ error = NoError
    /\ http_log = <<>>
    /\ last_response = NoResponse
    /\ sleeps = <<>>
    /\ batch_state = <<>>
    /\ attempted = {}

\* An exception nobody catches ends the interpreter with status 1.
UncaughtExit == 1

\* An exception of post_json caught in the loop of main, which goes on.
Propagate_caught_in_loop(e) ==
    /\ pc' = IF pc = "post_json" THEN "loop" ELSE "exited"
    /\ exit_status' = IF pc = "post_json" THEN exit_status ELSE <<UncaughtExit>>
    /\ error' = e

\* The exception e leaves main.
Propagate(e) ==
    /\ pc' = "exited"
    /\ exit_status' = <<UncaughtExit>>
    /\ error' = e

Exc(r) ==
    [exc |-> r.exc, msg |-> r.msg, status |-> 0, body |-> <<>>, path |-> r.path]

\* -------------------------------------------------------------------- main
\* Lines 119-122: the format is the forced one, or follows the input path.
ResolveFormat ==
    /\ pc = "resolve"
    /\ fmt' = IF args.format = "none"
              THEN (IF fs.kind = "dir" THEN "dir" ELSE "json")
              ELSE args.format
    /\ pc' = "load"
    /\ UNCHANGED <<args, fs, documents, batches, idx, attempt,
                   total_created, total_failed, result, returned, stdout,
                   exit_status, error, http_log, last_response, sleeps,
                   batch_state, attempted>>

\* Lines 123-124.
LoadDir ==
    /\ pc = "load"
    /\ fmt = "dir"
    /\ LET r == load_documents_from_dir(fs, args.language_code, args.split)
       IN  IF r.raised
           THEN Propagate(Exc(r)) /\ UNCHANGED documents
           ELSE documents' = r.value /\ pc' = "loaded"
                /\ UNCHANGED <<exit_status, error>>
    /\ UNCHANGED <<args, fs, fmt, batches, idx, attempt, total_created,
                   total_failed, result, returned, stdout, http_log,
                   last_response, sleeps, batch_state, attempted>>

\* Lines 125-126.
LoadJson ==
    /\ pc = "load"
    /\ fmt # "dir"
    /\ LET r == load_documents_from_json(fs)
       IN  IF r.raised
           THEN Propagate(Exc(r)) /\ UNCHANGED documents
           ELSE documents' = r.value /\ pc' = "loaded"
                /\ UNCHANGED <<exit_status, error>>
    /\ UNCHANGED <<args, fs, fmt, batches, idx, attempt, total_created,
                   total_failed, result, returned, stdout, http_log,
                   last_response, sleeps, batch_state, attempted>>

\* The --dry-run switch ignored.
dry_run_requested_never(a) == FALSE

\* Line 127.
dry_run_requested(a) == a.dry_run

\* Lines 127-129.
DryRun ==
    /\ pc = "loaded"
    /\ dry_run_requested(args)
    /\ stdout' = Append(stdout, [line |-> "loaded", n |-> Len(documents)])
    /\ pc' = "exited"
    /\ exit_status' = <<0>>
    /\ UNCHANGED <<args, fs, fmt, documents, batches, idx, attempt,
                   total_created, total_failed, result, returned, error,
                   http_log, last_response, sleeps, batch_state, attempted>>

\* Lines 130-133.
Plan ==
    /\ pc = "loaded"
    /\ ~dry_run_requested(args)
    /\ LET r == chunked(documents, args.batch_size)
       IN  IF r.raised
           THEN Propagate(Exc(r)) /\ UNCHANGED <<batches, batch_state>>
           ELSE /\ batches' = r.value
                /\ batch_state' = [i \in 1..Len(r.value) |-> "pending"]
                /\ pc' = "loop"
                /\ UNCHANGED <<exit_status, error>>
    /\ total_created' = 0
    /\ total_failed' = 0
    /\ UNCHANGED <<args, fs, fmt, documents, idx, attempt, result, returned,
                   stdout, http_log, last_response, sleeps, attempted>>

\* Lines 134-136 and 91-97: the next batch is handed to post_json, whose
\* loop starts; with no iteration to make, line 114 raises.
SendBatch ==
    /\ pc = "loop"
    /\ idx < Len(batches)
    /\ idx' = idx + 1
    /\ http_log' = <<>>
    /\ last_response' = NoResponse
    /\ sleeps' = <<>>
    /\ IF in_range(0, args.retries)
       THEN /\ attempt' = 0
            /\ pc' = "post_json"
            /\ batch_state' = [batch_state EXCEPT ![idx + 1] = "sending"]
            /\ UNCHANGED <<exit_status, error>>
       ELSE /\ Propagate([exc |-> "RuntimeError", msg |-> "request failed after retries",
                          status |-> 0, body |-> <<>>, path |-> <<>>])
            /\ batch_state' = [batch_state EXCEPT ![idx + 1] = "failed"]
            /\ UNCHANGED attempt
    /\ UNCHANGED <<args, fs, fmt, documents, batches, total_created,
                   total_failed, result, returned, stdout, attempted>>

\* The urlopen call of line 100 is made and meets outcome o.
Urlopen(o) ==
    /\ pc = "post_json"
    /\ http_log' = Append(http_log, [kind |-> o.kind, status |-> o.status])
    /\ last_response' = o
    /\ attempted' = attempted \cup {idx}

\* Lines 106 and 112, and the loop header they go back to.
Continue ==
    IF in_range(attempt + 1, args.retries)
    THEN /\ attempt' = attempt + 1
         /\ UNCHANGED <<pc, exit_status, error, batch_state>>
    ELSE /\ Propagate([exc |-> "RuntimeError", msg |-> "request failed after retries",
                       status |-> 0, body |-> <<>>, path |-> <<>>])
         /\ batch_state' = [batch_state EXCEPT ![idx] = "failed"]
         /\ UNCHANGED attempt

\* The counts a result holds: <<n>> for a count of n, <<>> for none.
counts_of(d) ==
    [created |-> IF "created" \in DOMAIN d THEN <<d["created"]>> ELSE <<>>,
     failed |-> IF "failed" \in DOMAIN d THEN <<d["failed"]>> ELSE <<>>]

\* Lines 98-101: the response is a success and its body is parsed.
AttemptReturns(o) ==
    /\ Urlopen(o)
    /\ o.kind = "response"
    /\ is_success(o.status)
    /\ result' = json_loads(o.body)
    /\ returned' = Append(returned, counts_of(json_loads(o.body)))
    /\ pc' = "aggregate"
    /\ batch_state' = [batch_state EXCEPT ![idx] = "success"]
    /\ UNCHANGED <<args, fs, fmt, documents, batches, idx, attempt,
                   total_created, total_failed, stdout, exit_status, error,
                   sleeps>>

\* Lines 102-108.
AttemptHTTPError(o) ==
    /\ Urlopen(o)
    /\ o.kind = "response"
    /\ ~is_success(o.status)
    /\ IF retryable(o.status) /\ attempts_left(attempt, args.retries)
       THEN /\ sleeps' = Append(sleeps, backoff(attempt))
            /\ Continue
       ELSE /\ Propagate([exc |-> "RuntimeError", msg |-> "HTTP",
                          status |-> o.status, body |-> o.body, path |-> <<>>])
            /\ batch_state' = [batch_state EXCEPT ![idx] = "failed"]
            /\ UNCHANGED <<sleeps, attempt>>
    /\ UNCHANGED <<args, fs, fmt, documents, batches, idx, total_created,
                   total_failed, result, returned, stdout>>

\* A network failure given up on at once.
AttemptURLError_never_retried(o) ==
    /\ Urlopen(o)
    /\ o.kind = "failure"
    /\ Propagate([exc |-> "RuntimeError", msg |-> "request failed",
                  status |-> 0, body |-> o.body, path |-> <<>>])
    /\ batch_state' = [batch_state EXCEPT ![idx] = "failed"]
    /\ UNCHANGED <<args, fs, fmt, documents, batches, idx, total_created,
                   total_failed, result, returned, stdout, sleeps, attempt>>

\* Lines 109-113.
AttemptURLError(o) ==
    /\ Urlopen(o)
    /\ o.kind = "failure"
    /\ IF attempts_left(attempt, args.retries)
       THEN /\ sleeps' = Append(sleeps, backoff(attempt))
            /\ Continue
       ELSE /\ Propagate([exc |-> "RuntimeError", msg |-> "request failed",
                          status |-> 0, body |-> o.body, path |-> <<>>])
            /\ batch_state' = [batch_state EXCEPT ![idx] = "failed"]
            /\ UNCHANGED <<sleeps, attempt>>
    /\ UNCHANGED <<args, fs, fmt, documents, batches, idx, total_created,
                   total_failed, result, returned, stdout>>

\* Lines 143-145: the detail lines of the items that carry an error.
RECURSIVE item_lines(_)
item_lines(items) ==
    IF items = <<>> THEN <<>>
    ELSE (IF get(Head(items), "error", "") # ""
          THEN <<[line |-> "item", index |-> get(Head(items), "index", -1),
                  error |-> get(Head(items), "error", "")]>>
          ELSE <<>>) \o item_lines(Tail(items))

\* The detail lines printed whatever the failed count.
detail_lines_ungated(failed, res) == item_lines(get(res, "results", <<>>))

\* Lines 142-145.
detail_lines(failed, res) ==
    IF failed # 0 THEN item_lines(get(res, "results", <<>>)) ELSE <<>>

\* A total overwritten by the count of the batch.
add_overwrites(total, count) == count

\* Lines 139-140: total += count.
add(total, count) == total + count

\* A loop that ends the run at the first batch reporting a failure.
Aggregate_stops_on_failure ==
    /\ pc = "aggregate"
    /\ LET created == int(get(result, "created", 0))
           failed == int(get(result, "failed", 0))
       IN  /\ total_created' = add(total_created, created)
           /\ total_failed' = add(total_failed, failed)
           /\ stdout' = Append(stdout, [line |-> "batch", idx |-> idx,
                                        of |-> Len(batches), created |-> created,
                                        failed |-> failed])
                        \o detail_lines(failed, result)
           /\ pc' = IF failed # 0 THEN "exited" ELSE "loop"
           /\ exit_status' = IF failed # 0 THEN <<1>> ELSE exit_status
    /\ UNCHANGED <<args, fs, fmt, documents, batches, idx, attempt, result,
                   returned, error, http_log, last_response, sleeps,
                   batch_state, attempted>>

\* Lines 137-145.
Aggregate ==
    /\ pc = "aggregate"
    /\ LET created == int(get(result, "created", 0))
           failed == int(get(result, "failed", 0))
       IN  /\ total_created' = add(total_created, created)
           /\ total_failed' = add(total_failed, failed)
           /\ stdout' = Append(stdout, [line |-> "batch", idx |-> idx,
                                        of |-> Len(batches), created |-> created,
                                        failed |-> failed])
                        \o detail_lines(failed, result)
    /\ pc' = "loop"
    /\ UNCHANGED <<args, fs, fmt, documents, batches, idx, attempt, result,
                   returned, exit_status, error, http_log, last_response,
                   sleeps, batch_state, attempted>>

\* Status 1 for a positive total only.
exit_code_if_positive(failed) == IF failed > 0 THEN 1 ELSE 0

\* Line 147.
exit_code(failed) == IF failed = 0 THEN 0 ELSE 1

\* Lines 146-147.
Finish ==
    /\ pc = "loop"
    /\ idx = Len(batches)
    /\ stdout' = Append(stdout, [line |-> "done", created |-> total_created,
                                 failed |-> total_failed])
    /\ exit_status' = <<exit_code(total_failed)>>
    /\ pc' = "exited"
    /\ UNCHANGED <<args, fs, fmt, documents, batches, idx, attempt,
                   total_created, total_failed, result, returned, error,
                   http_log, last_response, sleeps, batch_state, attempted>>

Next ==
    \/ ResolveFormat
    \/ LoadDir
    \/ LoadJson
    \/ DryRun
    \/ Plan
    \/ SendBatch
    \/ \E o \in Outcomes : AttemptReturns(o)
    \/ \E o \in Outcomes : AttemptHTTPError(o)
    \/ \E o \in Outcomes : AttemptURLError(o)
    \/ Aggregate
    \/ Finish

Spec == Init /\ [][Next]_vars

\* ------------------------------------------------------- the sends alone
\* main has planned one batch for each of the MaxDocs documents of a JSON
\* array and enters its loop.
SendInit ==
    /\ args \in [retries : 0..MaxRetries, batch_size : {1}, dry_run : {FALSE},
                 format : {"json"}, split : {<<"blankline", <<>>>>},
                 language_code : {"en-US"}]
    /\ documents = [i \in 1..MaxDocs |-> i]
    /\ fs = JsonFile([json |-> "list", documents |-> "absent", items |-> documents])
    /\ pc = "loop"
    /\ fmt = "json"
    /\ batches = chunked(documents, args.batch_size).value
    /\ batch_state = [i \in 1..Len(batches) |-> "pending"]
    /\ idx = 0
    /\ attempt = 0
    /\ total_created = 0
    /\ total_failed = 0
    /\ result = <<>>
    /\ returned = <<>>
    /\ stdout = <<>>
    /\ exit_status = <<>>
    /\ error = NoError
    /\ http_log = <<>>
    /\ last_response = NoResponse
    /\ sleeps = <<>>
    /\ attempted = {}

SendNext ==
    \/ SendBatch
    \/ \E o \in Outcomes : AttemptReturns(o)
    \/ \E o \in Outcomes : AttemptHTTPError(o)
    \/ \E o \in Outcomes : AttemptURLError(o)
    \/ Aggregate
    \/ Finish

\* The interpreter runs its one thread until it exits: urlopen returns or
\* raises within its timeout of 30 s, and each sleep is finite.
SendSpec == SendInit /\ [][SendNext]_vars /\ WF_vars(SendNext)

\* ------------------------------------------------------------------ claims
\* The statuses the retry policy names.
RetryableStatuses == {429, 500, 502, 503, 504}

SuccessStatus(status) == status \in 200..299

\* The attempt logged as e ended in a retryable failure.
RetryableFailure(e) ==
    \/ e.kind = "failure"
    \/ e.kind = "response" /\ e.status \in RetryableStatuses

\* The attempt logged as e met an error status that is not retried.
NonRetryableFailure(e) ==
    /\ e.kind = "response"
    /\ ~SuccessStatus(e.status)
    /\ e.status \notin RetryableStatuses

\* The send of the current batch is over.
SendOver == idx \in DOMAIN batch_state /\ batch_state[idx] \in {"success", "failed"}

SendFailed == idx \in DOMAIN batch_state /\ batch_state[idx] = "failed"

\* The run ended without an exception.
Completed == pc = "exited" /\ error.exc = ""

\* The run was ended by an exception.
Aborted == pc = "exited" /\ error.exc # ""

RECURSIVE SumOf(_)
SumOf(seq) == IF seq = <<>> THEN 0 ELSE Head(seq) + SumOf(Tail(seq))

StatusesOf(log) == [i \in 1..Len(log) |-> log[i].status]

\* C1: with retries >= 0 a send makes at most retries + 1 HTTP attempts,
\* HTTP statuses and network failures counted together, and exactly
\* retries + 1 when every attempt ended in a retryable failure.
C1_AttemptBudget ==
    args.retries >= 0 =>
        /\ Len(http_log) <= args.retries + 1
        /\ (SendOver /\ \A i \in 1..Len(http_log) : RetryableFailure(http_log[i]))
               => Len(http_log) = args.retries + 1

C1_Witness ==
    /\ args.retries = 3
    /\ SendOver
    /\ Len(http_log) = 4
    /\ \A i \in 1..4 : RetryableFailure(http_log[i])
    /\ \E i, j \in 1..4 : http_log[i].kind = "failure" /\ http_log[j].kind = "response"

\* C2: the k-th wait of a send, between attempt k and attempt k + 1, lasts
\* 0.5 * 2^(k-1) seconds; every attempt of a send still going on was followed
\* by a wait, and the last attempt of a send that is over by none.
C2_Backoff ==
    /\ \A k \in 1..Len(sleeps) : sleeps[k] = 500 * (2 ^ (k - 1))
    /\ pc = "post_json" => Len(sleeps) = Len(http_log)
    /\ (pc # "post_json" /\ http_log # <<>>) => Len(sleeps) = Len(http_log) - 1
    /\ http_log = <<>> => sleeps = <<>>

C2_Witness ==
    /\ SendFailed
    /\ Len(http_log) = 4
    /\ sleeps = <<500, 1000, 2000>>

\* C3: batches are sent in planned order, one at a time: a batch is started
\* only when all the batches before it succeeded, and once a send failed the
\* run is over and no later batch was started or attempted.
C3_InOrder ==
    /\ attempted = 1..Cardinality(attempted)
    /\ \A i \in attempted : batch_state[i] # "pending"
    /\ Cardinality({i \in DOMAIN batch_state : batch_state[i] = "sending"}) <= 1
    /\ \A i \in DOMAIN batch_state :
           /\ batch_state[i] # "pending" =>
                  \A j \in 1..(i - 1) : batch_state[j] = "success" /\ j \in attempted
           /\ batch_state[i] = "failed" =>
                  /\ Aborted
                  /\ error.exc = "RuntimeError"
                  /\ \A j \in (i + 1)..Len(batch_state) :
                         batch_state[j] = "pending" /\ j \notin attempted

C3_Witness ==
    /\ Len(batches) = 2
    /\ batch_state = <<"failed", "pending">>
    /\ attempted = {1}
    /\ Aborted

\* C4 as stated: a completed run ends with status 1 exactly when the
\* accumulated total_failed is positive, and with 0 otherwise.
C4_Original ==
    Completed =>
        /\ exit_status = <<1>> <=> total_failed > 0
        /\ exit_status = <<0>> <=> ~(total_failed > 0)

\* C4 as amended: a completed run ends with status 1 exactly when the
\* accumulated total_failed is not 0, and with 0 exactly when it is 0.
C4_ExitStatus ==
    Completed =>
        /\ exit_status = <<1>> <=> total_failed # 0
        /\ exit_status = <<0>> <=> total_failed = 0

C4_Witness ==
    /\ Completed
    /\ Len(batches) = 2
    /\ total_failed < 0
    /\ exit_status = <<1>>

\* C5: a run an exception aborted ends with a status that is neither 0 nor 1.
C5_AbortStatus == Aborted => (exit_status # <<0>> /\ exit_status # <<1>>)

\* C6: an error status outside the retryable ones is the last attempt of
\* its send: the send failed with an error carrying that status and body,
\* whatever the retries left, and no wait followed it.
C6_NonRetryable ==
    \A i \in 1..Len(http_log) :
        NonRetryableFailure(http_log[i]) =>
            /\ i = Len(http_log)
            /\ Len(sleeps) = i - 1
            /\ SendFailed
            /\ Aborted
            /\ error.exc = "RuntimeError"
            /\ last_response.status = http_log[i].status
            /\ error.status = last_response.status
            /\ error.body = last_response.body

C6_Witness ==
    /\ args.retries = 3
    /\ StatusesOf(http_log) = <<503, 404>>
    /\ Aborted
    /\ error.status = 404

\* C7: a retryable status met by attempt i is followed by a wait and a next
\* attempt exactly when i < retries + 1; met by the last permitted attempt
\* it fails the send with an error carrying its status and body.
C7_RetryableStatus ==
    \A i \in 1..Len(http_log) :
        (http_log[i].kind = "response" /\ http_log[i].status \in RetryableStatuses) =>
            IF i < args.retries + 1
            THEN /\ Len(sleeps) >= i
                 /\ Len(http_log) > i \/ (pc = "post_json" /\ attempt = i)
            ELSE /\ i = Len(http_log)
                 /\ Len(sleeps) = i - 1
                 /\ SendFailed
                 /\ Aborted
                 /\ error.exc = "RuntimeError"
                 /\ last_response.status = http_log[i].status
                 /\ error.status = last_response.status
                 /\ error.body = last_response.body

C7_Witness ==
    /\ args.retries = 1
    /\ StatusesOf(http_log) = <<429, 503>>
    /\ Len(sleeps) = 1
    /\ Aborted
    /\ error.status = 503

\* C8: a network failure met by attempt i is followed by a wait and a next
\* attempt while i < retries + 1, and fails the send, with an error carrying
\* its cause, only when it is met by the last permitted attempt.
C8_NetworkFailure ==
    \A i \in 1..Len(http_log) :
        http_log[i].kind = "failure" =>
            IF i < args.retries + 1
            THEN /\ Len(sleeps) >= i
                 /\ Len(http_log) > i \/ (pc = "post_json" /\ attempt = i)
            ELSE /\ i = Len(http_log)
                 /\ Len(sleeps) = i - 1
                 /\ SendFailed
                 /\ Aborted
                 /\ error.exc = "RuntimeError"
                 /\ error.msg = "request failed"
                 /\ last_response.kind = "failure"
                 /\ error.body = last_response.body

C8_Witness ==
    /\ args.retries = 1
    /\ Len(http_log) = 2
    /\ \A i \in 1..2 : http_log[i].kind = "failure"
    /\ Len(sleeps) = 1
    /\ Aborted
    /\ error.msg = "request failed"

\* What a JSON object says: for each key, the value of its last member.
ParsedBody(body) ==
    [k \in {body[i][1] : i \in DOMAIN body} |->
        LET last == CHOOSE i \in DOMAIN body :
                        /\ body[i][1] = k
                        /\ \A m \in DOMAIN body : m > i => body[m][1] # k
        IN  body[last][2]]

C10_DryRun ==
    args.dry_run =>
        /\ http_log = <<>> /\ attempted = {} /\ sleeps = <<>>
        /\ last_response = NoResponse
        /\ batches = <<>>
        /\ pc \in {"resolve", "load", "loaded", "exited"}
        /\ Completed =>
               /\ exit_status = <<0>>
               /\ stdout = <<[line |-> "loaded", n |-> Len(documents)]>>
        /\ Aborted =>
               error.msg \notin {"batch-size must be positive", "HTTP",
                                 "request failed", "request failed after retries"}

C10_Witness ==
    /\ args.dry_run
    /\ args.batch_size = 0
    /\ Len(documents) = 2
    /\ Completed
    /\ exit_status = <<0>>

\* The run parameters are invalid: a batch size that is not positive, a
\* split rule that is not recognized, or an empty delimiter.
InvalidParams ==
    \/ args.batch_size <= 0
    \/ args.split[1] \notin {"blankline", "delimiter:"}
    \/ args.split = <<"delimiter:", <<>>>>

ConfigurationErrors ==
    {"batch-size must be positive", "delimiter must not be empty",
     "unsupported split rule"}

\* C11: a run with invalid parameters never gets past the start of the load
\* phase: it is aborted, in a dry run too, by the error of the invalid
\* parameter, and no document is loaded.
C11_ConfigBeforeLoad ==
    InvalidParams =>
        /\ pc \in {"resolve", "load", "exited"}
        /\ documents = <<>>
        /\ pc = "exited" => (Aborted /\ error.msg \in ConfigurationErrors)

\* C12: a run that is no dry run and whose batch size is not positive makes
\* no urlopen call and plans no batch; once the documents are loaded it is
\* aborted by the error of chunked.
C12_BatchSizeChecked ==
    (~args.dry_run /\ args.batch_size <= 0) =>
        /\ http_log = <<>> /\ attempted = {} /\ sleeps = <<>>
        /\ batches = <<>>
        /\ pc \in {"resolve", "load", "loaded", "exited"}
        /\ pc = "exited" => (Aborted /\ error.exc = "ValueError")
        /\ (pc = "exited" /\ documents # <<>>) =>
               error.msg = "batch-size must be positive"

C12_Witness ==
    /\ ~args.dry_run
    /\ args.batch_size = 0
    /\ Len(documents) = 2
    /\ Aborted
    /\ error.msg = "batch-size must be positive"
    /\ http_log = <<>>

IsBatchLine(l) == l.line = "batch"

\* The per-batch summary lines printed so far.
BatchLines == SelectSeq(stdout, IsBatchLine)

\* C13: a run that ended without an exception and was no dry run sent every
\* planned batch to success, once each and in order, whatever failed counts
\* the results reported, and printed the final totals last.
C13_FailuresDoNotStop ==
    (Completed /\ ~args.dry_run) =>
        /\ \A i \in DOMAIN batch_state : batch_state[i] = "success"
        /\ attempted = 1..Len(batches)
        /\ Len(returned) = Len(batches)
        /\ [i \in 1..Len(BatchLines) |-> BatchLines[i].idx]
               = [i \in 1..Len(batches) |-> i]
        /\ stdout # <<>>
        /\ stdout[Len(stdout)] = [line |-> "done", created |-> total_created,
                                  failed |-> total_failed]

C13_Witness ==
    /\ Completed
    /\ Len(batches) = 2
    /\ batch_state = <<"success", "success">>
    /\ returned[1].failed = <<1>>
    /\ stdout[Len(stdout)].line = "done"

\* ------------------------------------------------------ chunked, by itself
\* main is about to plan: the documents are any list of at most MaxChunkLen
\* documents, two of which may be equal, read from a JSON array, and the
\* batch size is positive.
ChunkInit ==
    /\ documents \in UNION {[1..n -> {1, 2}] : n \in 0..MaxChunkLen}
    /\ args \in [retries : {0}, batch_size : 1..MaxChunkSize, dry_run : {FALSE},
                 format : {"json"}, split : {<<"blankline", <<>>>>},
                 language_code : {"en-US"}]
    /\ fs = JsonFile([json |-> "list", documents |-> "absent", items |-> documents])
    /\ pc = "loaded"
    /\ fmt = "json"
    /\ batches = <<>>
    /\ idx = 0
    /\ attempt = 0
    /\ total_created = 0
    /\ total_failed = 0
    /\ result = <<>>
    /\ returned = <<>>
    /\ stdout = <<>>
    /\ exit_status = <<>>
    /\ error = NoError
    /\ http_log = <<>>
    /\ last_response = NoResponse
    /\ sleeps = <<>>
    /\ batch_state = <<>>
    /\ attempted = {}

ChunkNext == Plan

ChunkSpec == ChunkInit /\ [][ChunkNext]_vars

RECURSIVE Concat(_)
Concat(seqs) == IF seqs = <<>> THEN <<>> ELSE Head(seqs) \o Concat(Tail(seqs))

\* The least k with k * size >= n.
Ceil(n, size) == CHOOSE k \in 0..n : k * size >= n /\ (k = 0 \/ (k - 1) * size < n)

\* C14: for a positive batch size the batches chunked returns concatenate
\* to the document list, every batch but the last holds batch_size
\* documents, the last holds n mod batch_size of them (batch_size when that
\* is 0), and there are ceil(n / batch_size) batches.
C14_Chunked ==
    pc = "loop" =>
        LET n == Len(documents)
            size == args.batch_size
            k == Len(batches)
        IN  /\ Concat(batches) = documents
            /\ \A i \in 1..(k - 1) : Len(batches[i]) = size
            /\ k > 0 => Len(batches[k]) = (IF n % size = 0 THEN size ELSE n % size)
            /\ k = Ceil(n, size)

C14_Witness ==
    /\ pc = "loop"
    /\ args.batch_size = 3
    /\ Len(documents) = 4
    /\ Len(batches) = 2
    /\ Len(batches[2]) = 1

\* ---------------------------------------------------------------- C15
\* The regular files of the directory named *.txt or *.md, in any case.
Matching ==
    {e \in fs.entries : e.is_file /\ e.name[2] \in {".txt", ".md", ".MD"}}

ValidRule ==
    \/ args.split = <<"blankline", <<>>>>
    \/ (args.split[1] = "delimiter:" /\ args.split[2] # <<>>)

\* The matching files the split rule finds no paragraph in.
Paragraphless ==
    {e \in Matching : split_paragraphs(e.content, args.split).value = <<>>}

FirstByName(entries) ==
    CHOOSE e \in entries : \A o \in entries : NameKey(e.name) <= NameKey(o.name)

NothingCarriedForward ==
    /\ Aborted
    /\ error.exc = "ValueError"
    /\ documents = <<>>
    /\ batches = <<>>
    /\ http_log = <<>>
    /\ attempted = {}

\* C15: once the directory load is over, a missing directory, a directory
\* with no regular .txt/.md file, and a matching file without paragraphs
\* each abort the run with a ValueError, with no document kept and no batch
\* sent; the file named by "empty document" is the first paragraph-less one
\* in ascending name order.
C15_AllOrNothing ==
    (fmt = "dir" /\ pc \notin {"resolve", "load"}) =>
        /\ fs.kind # "dir" =>
               NothingCarriedForward /\ error.msg = "input directory not found"
        /\ (fs.kind = "dir" /\ Matching = {}) =>
               NothingCarriedForward /\ error.msg = "no .txt or .md files found"
        /\ (fs.kind = "dir" /\ ValidRule /\ Paragraphless # {}) =>
               /\ NothingCarriedForward
               /\ error.msg = "empty document"
               /\ error.path = FirstByName(Paragraphless).name

C15_Witness ==
    /\ fmt = "dir"
    /\ Cardinality(Paragraphless) = 2
    /\ Paragraphless # Matching
    /\ Aborted
    /\ error.msg = "empty document"
    /\ error.path = <<"b", ".md">>
    /\ documents = <<>>

\* --------------------------------------------- split_paragraphs, by itself
\* main is about to load a directory holding one file a.txt, whose text is
\* any string of at most MaxTextLen characters among a letter, a space, a
\* newline and a hyphen; the split rule is blankline or a delimiter.
SplitTexts == UNION {[1..n -> {"a", SP, NL, "-"}] : n \in 0..MaxTextLen}

SplitModes ==
    { <<"blankline", <<>>>>, <<"delimiter:", <<"-">>>>,
      <<"delimiter:", <<NL>>>>, <<"delimiter:", <<"-", "-">>>> }

SplitInit ==
    /\ \E text \in SplitTexts : fs = Dir({File("a", ".txt", text)})
    /\ args \in [retries : {0}, batch_size : {1}, dry_run : {FALSE},
                 format : {"dir"}, split : SplitModes,
                 language_code : {"en-US"}]
    /\ pc = "load"
    /\ fmt = "dir"
    /\ documents = <<>>
    /\ batches = <<>>
    /\ idx = 0
    /\ attempt = 0
    /\ total_created = 0
    /\ total_failed = 0
    /\ result = <<>>
    /\ returned = <<>>
    /\ stdout = <<>>
    /\ exit_status = <<>>
    /\ error = NoError
    /\ http_log = <<>>
    /\ last_response = NoResponse
    /\ sleeps = <<>>
    /\ batch_state = <<>>
    /\ attempted = {}

SplitNext == LoadDir

SplitSpec == SplitInit /\ [][SplitNext]_vars

\* The text of the one file of the directory.
TheText == (CHOOSE e \in fs.entries : TRUE).content

\* Do the segments occur in the text one after the other, without overlap,
\* from position from on?  (The leftmost occurrence of each is enough.)
RECURSIVE InSourceOrder(_, _, _)
InSourceOrder(segments, text, from) ==
    IF segments = <<>> THEN TRUE
    ELSE LET seg == Head(segments)
             at == {i \in from..Len(text) : OccursAt(text, seg, i)}
         IN  /\ at # {}
             /\ InSourceOrder(Tail(segments), text, Min(at) + Len(seg))

\* C16: the paragraphs split_paragraphs returns for blankline and for
\* delimiter:<token> are never empty nor whitespace only, carry no leading
\* or trailing whitespace, and occur in the text in the order returned.
C16_Segments ==
    pc = "loaded" =>
        LET paragraphs == documents[1].paragraphs
            bodies == [i \in 1..Len(paragraphs) |-> paragraphs[i].body]
        IN  /\ \A i \in 1..Len(bodies) :
                   /\ bodies[i] # <<>>
                   /\ \E k \in 1..Len(bodies[i]) : ~IsSpace(bodies[i][k])
                   /\ ~IsSpace(bodies[i][1])
                   /\ ~IsSpace(bodies[i][Len(bodies[i])])
            /\ InSourceOrder(bodies, TheText, 1)

C16_Witness ==
    /\ pc = "loaded"
    /\ args.split = <<"blankline", <<>>>>
    /\ TheText = <<"a", NL, NL, "-">>
    /\ Len(documents[1].paragraphs) = 2
    /\ documents[1].paragraphs[2].body = <<"-">>

\* ---------------------------------------------------------------- C17
SendStates == {"pending", "sending", "success", "failed"}

Terminal(i) == batch_state[i] \in {"success", "failed"}

C17_States ==
    /\ \A i \in DOMAIN batch_state : batch_state[i] \in SendStates
    /\ pc = "post_json" => (idx \in DOMAIN batch_state /\ batch_state[idx] = "sending")
    /\ args.retries >= 0 => Len(sleeps) <= args.retries

\* A step keeps a terminal send terminal, and makes an attempt or a wait
\* only for the batch being sent.
C17_Step ==
    /\ \A i \in DOMAIN batch_state :
           Terminal(i) => (i \in DOMAIN batch_state' /\ batch_state'[i] = batch_state[i])
    /\ (Len(http_log') > Len(http_log) \/ Len(sleeps') > Len(sleeps)
            \/ attempted' # attempted) =>
           /\ idx' = idx
           /\ batch_state[idx] = "sending"
           /\ attempted' = attempted \cup {idx}

\* C17: with retries >= 0 every send that starts ends as success or as
\* failed; a send that ended stays as it ended and is followed by no
\* attempt and no wait of its batch; a send waits at most retries times.
C17_SendTerminates ==
    /\ []C17_States
    /\ [][C17_Step]_vars
    /\ (pc = "post_json" /\ args.retries >= 0) ~> SendOver

C17_Witness ==
    /\ args.retries = 3
    /\ Len(sleeps) = 3
    /\ idx = 2
    /\ batch_state[1] = "success"
    /\ batch_state[2] = "failed"

\* ---------------------------------------------------------------- C18
HasError(item) == get(item, "error", "") # ""

\* One detail line for each entry of results that carries an error.
ErrorLinesOf(res) ==
    LET errored == SelectSeq(get(res, "results", <<>>), HasError)
    IN  [i \in 1..Len(errored) |->
            [line |-> "item", index |-> get(errored[i], "index", -1),
             error |-> get(errored[i], "error", "")]]

\* What was printed after the summary line of the last batch.
DetailTail ==
    LET last == Max({i \in 1..Len(stdout) : stdout[i].line = "batch"})
    IN  SubSeq(stdout, last + 1, Len(stdout))

JustAggregated ==
    pc = "loop" /\ idx >= 1 /\ batch_state[idx] = "success"

C19_NegativeRetries ==
    args.retries < 0 =>
        /\ http_log = <<>>
        /\ attempted = {}
        /\ sleeps = <<>>
        /\ returned = <<>>
        /\ pc \notin {"post_json", "aggregate"}
        /\ idx >= 1 =>
               /\ idx = 1
               /\ Aborted
               /\ error.exc = "RuntimeError"
               /\ error.msg = "request failed after retries"
               /\ batch_state[1] = "failed"
               /\ \A i \in 2..Len(batches) : batch_state[i] = "pending"
        /\ (Completed /\ ~args.dry_run) => batches = <<>>

C19_Witness ==
    /\ args.retries = -1
    /\ Len(documents) = 2
    /\ Len(batches) = 2
    /\ Aborted
    /\ error.msg = "request failed after retries"
    /\ http_log = <<>>
    /\ sleeps = <<>>

\* ---------------------------------------------------------------- C20
\* A count a response holds, or 0 for a count it does not hold.
CountOr0(c) == IF c = <<>> THEN 0 ELSE c[1]

CreatedOf(rs) == SumOf([i \in 1..Len(rs) |-> CountOr0(rs[i].created)])

FailedOf(rs) == SumOf([i \in 1..Len(rs) |-> CountOr0(rs[i].failed)])

\* The results of the sends that returned, the one that has just returned
\* and is added by the statements that follow the call left aside.
Counted ==
    IF pc = "aggregate" THEN SubSeq(returned, 1, Len(returned) - 1) ELSE returned

\* The totals are the sums over the sends that returned, and a send that
\* is going on or has failed has added nothing.
TotalsAreSums ==
    /\ total_created = CreatedOf(Counted)
    /\ total_failed = FailedOf(Counted)
    /\ (pc = "post_json" \/ SendFailed) =>
           /\ Len(returned) = idx - 1
           /\ \A i \in 1..Len(returned) : batch_state[i] = "success"
    /\ Len(returned) = Cardinality({i \in DOMAIN batch_state : batch_state[i] = "success"})

\* The input read as JSON holds an empty list of documents.
EmptyDocumentList ==
    /\ fmt = "json"
    /\ fs.kind = "file"
    /\ fs.raw.json = "list" \/ (fs.raw.json = "object" /\ fs.raw.documents = "list")
    /\ fs.raw.items = <<>>

NothingToSend ==
    /\ Completed
    /\ batches = <<>>
    /\ http_log = <<>>
    /\ attempted = {}
    /\ total_created = 0
    /\ total_failed = 0
    /\ exit_status = <<0>>

\* C20 as claimed: the totals are the sums of the counts of the sends that
\* returned, and a run whose JSON input holds an empty document list ends
\* with no batch, no HTTP attempt, totals (0, 0) and exit status 0.
C20_Original ==
    /\ TotalsAreSums
    /\ (EmptyDocumentList /\ pc = "exited") => NothingToSend

\* C20: the totals are the sums of the created and failed counts of the
\* sends that returned, a missing count taken as 0, and a send going on or
\* failed adds nothing; with a positive batch size, a run whose JSON input
\* holds an empty document list ends with no batch, no HTTP attempt, totals
\* (0, 0) and exit status 0.
C20_RunTotals ==
    /\ TotalsAreSums
    /\ (EmptyDocumentList /\ args.batch_size > 0 /\ pc = "exited") => NothingToSend

C20_Witness ==
    /\ Completed
    /\ Len(returned) = 2
    /\ returned[1].created = <<>>
    /\ returned[2].failed = <<1>>
    /\ total_failed = 1
    /\ total_created = CreatedOf(returned)

====
